---- MODULE Spec2Model ----
(***************************************************************************)
(* Model of scripts/main.py: the CsvUploader pipeline.  A run constructs   *)
(* the uploader (credentials, initial JWT), then reads the source CSV row  *)
(* by row, writes chunk files and uploads each one under the tenacity      *)
(* retry policy, moving an uploaded chunk file into the "uploaded"         *)
(* sub-directory.                                                          *)
(*                                                                         *)
(* A source row is represented by its position in the file (1-based) and   *)
(* by the byte length of its comma-joined fields, source[position].        *)
(* A token is the ordinal of the successful /auth response that issued it. *)
(* Sizes are scaled: MAX_CHUNK_SIZE stands for 9 * 1024 * 1024.            *)
(***************************************************************************)
EXTENDS Integers, Sequences, FiniteSets, TLC

\* ---- bounds of the model ----
MaxRows == 3        \* rows in the source file (skipped + header + data)
MaxHeader == 2      \* largest --header value
Max401 == 2         \* 401 responses the server gives in one run

\* ---- program constants ----
MAX_CHUNK_SIZE == 2     \* self.MAX_CHUNK_SIZE (scaled)
StopAfterAttempt == 3   \* stop_after_attempt(3)
WaitMultiplier == 10    \* wait_exponential(multiplier=10)

\* byte length of a comma-joined row: up to the ceiling, so that a row's
\* size (length + 1) ranges from 1 to one more than the ceiling
MaxRowLen == MAX_CHUNK_SIZE

None == "None"

\* requests.RequestException: the request ended without a response
TransportError == 0

VARIABLES
    pc,                         \* position of the run
    HEADER,                     \* self.HEADER
    envQualysUsernameProperty,  \* name of the username variable, or None
    envQualysPasswordProperty,  \* name of the password variable, or None
    USERNAME, PASSWORD,         \* self.USERNAME, self.PASSWORD
    generated_jwt,              \* self.generated_jwt (0: not yet assigned)
    authCalls,                  \* POST /auth requests sent
    jwtIssued,                  \* tokens the auth endpoint has issued
    source,                     \* the opened CSV: joined length of each row
    pos,                        \* rows consumed from csv_file_reader
    headers,                    \* position of the row captured as headers
    row,                        \* loop variable: position of the current row
    chunk,                      \* the chunk buffer (row positions)
    current_chunk_size,
    chunk_index,
    chunk_filename,             \* index in the name of the chunk being uploaded
    ret,                        \* where upload_csv_file returns to
    working,                    \* chunk files in output_dir
    delivered,                  \* chunk files in output_dir/uploaded
    output_dir,                 \* "none" until os.makedirs created it
    attempts,                   \* upload requests of the current upload_call
    sleepSecs,                  \* pending tenacity wait
    got200,                     \* chunks whose upload request was answered 200
    permFailed,                 \* chunks logged "Failed to upload ... "
    relocations,                \* shutil.move calls that succeeded, in order
    n401,                       \* 401 responses received
    lastReq                     \* chunk of the latest upload request

vars == <<pc, HEADER, envQualysUsernameProperty, envQualysPasswordProperty,
          USERNAME, PASSWORD, generated_jwt, authCalls, jwtIssued, source,
          pos, headers, row, chunk, current_chunk_size, chunk_index,
          chunk_filename, ret, working, delivered, output_dir, attempts,
          sleepSecs, got200, permFailed, relocations, n401, lastReq>>

cfgVars == <<HEADER, envQualysUsernameProperty, envQualysPasswordProperty>>
credVars == <<USERNAME, PASSWORD>>
authVars == <<generated_jwt, authCalls, jwtIssued>>
readVars == <<source, pos, headers, row, chunk, current_chunk_size,
              chunk_index>>
fileVars == <<working, delivered, relocations, output_dir>>
upVars == <<chunk_filename, ret, attempts, sleepSecs, got200, permFailed,
            n401, lastReq>>

\* ---- helpers ----
RECURSIVE Pow2(_)
Pow2(n) == IF n <= 0 THEN 1 ELSE 2 * Pow2(n - 1)

RECURSIVE SeqsUpTo(_, _)
SeqsUpTo(S, n) ==
    IF n = 0 THEN {<<>>}
    ELSE LET shorter == SeqsUpTo(S, n - 1)
         IN shorter \cup {Append(s, x) : s \in {t \in shorter : Len(t) = n - 1}, x \in S}

Sources == SeqsUpTo(0..MaxRowLen, MaxRows)

\* row_size = len(",".join(row).encode("utf-8")) + 1
RowSize(r) == source[r] + 1

SkipCount_OffByOne(h) == IF h > 0 THEN h ELSE 0

\* for _ in range(self.HEADER - 1): next(csv_file_reader)
SkipCount(h) == IF h - 1 > 0 THEN h - 1 ELSE 0

\* if current_chunk_size + row_size > self.MAX_CHUNK_SIZE
ShouldSeal(size, rsz) == size + rsz > MAX_CHUNK_SIZE

NextChunkIndex_Skip(i) == i + 2

\* chunk_index += 1
NextChunkIndex(i) == i + 1

EnvCredsMissing_Both(u, p) == u = None /\ p = None

\* if self.USERNAME is None or self.PASSWORD is None
EnvCredsMissing(u, p) == u = None \/ p = None

StatusIsSuccess_AnyAnswer(status) == status \in {200, 500}

\* if response.status_code == 200
StatusIsSuccess(status) == status = 200

StatusIsAuthExpired_AnyFailure(status) == status \in {401, 500}

\* elif response.status_code == 401
StatusIsAuthExpired(status) == status = 401

WaitExponential_FromTwo(attempt) == WaitMultiplier * Pow2(attempt)

\* wait_exponential(multiplier=10): multiplier * 2 ** (attempt_number - 1)
WaitExponential(attempt) == WaitMultiplier * Pow2(attempt - 1)

RetryStops_OffByOne(attempt) == attempt > StopAfterAttempt

\* stop_after_attempt(3): no further attempt once attempt_number >= 3
RetryStops(attempt) == attempt >= StopAfterAttempt

OnRetryError_Abort(retpc) == "run_error"

\* except RetryError: logging.error(...) and return to the caller
OnRetryError(retpc) == retpc

AfterInitialAuth_Swallow(ok) == "process"

\* __init__: a raising _generate_jwt leaves the constructor and start()
AfterInitialAuth(ok) == IF ok THEN "process" ELSE "auth_error"

BufferNonEmpty_Always(c) == TRUE

\* if chunk:
BufferNonEmpty(c) == c # <<>>

AppendBeforeCheck_Dropped(c, r) == c

\* chunk.append(row) before the size check
AppendBeforeCheck(c, r) == Append(c, r)

OnMoveError_Continue(retpc) == retpc

\* an exception of shutil.move is no RetryError: it leaves upload_csv_file,
\* process_and_upload_chunks and start()
OnMoveError(retpc) == "fs_error"

\* the files of a directory after f is written under index k
WithFile(dir, k, f) ==
    [i \in DOMAIN dir \cup {k} |-> IF i = k THEN f ELSE dir[i]]

WithoutFile(dir, k) == [i \in DOMAIN dir \ {k} |-> dir[i]]

MoveSourceAfter_Copy(dir, k) == dir

\* shutil.move(chunk_file_path, processed_chunk_path): source directory after
MoveSourceAfter(dir, k) == WithoutFile(dir, k)

\* shutil.move(chunk_file_path, processed_chunk_path): target directory after
MoveTargetAfter(src, dst, k) == WithFile(dst, k, src[k])

\* _write_chunk: writer.writerow(headers); writer.writerows(chunk)
\* a chunk file is the sequence of its lines
ChunkFile(hdr, rows) == <<hdr>> \o rows

Init ==
    /\ pc = "init"
    /\ HEADER \in 0..MaxHeader
    /\ envQualysUsernameProperty \in {None, "QUALYS_USER"}
    /\ envQualysPasswordProperty \in {None, "QUALYS_PASS"}
    /\ USERNAME = "arg_username"
    /\ PASSWORD = "arg_password"
    /\ generated_jwt = 0
    /\ authCalls = 0
    /\ jwtIssued = 0
    /\ source = <<>>
    /\ pos = 0
    /\ headers = 0
    /\ row = 0
    /\ chunk = <<>>
    /\ current_chunk_size = 0
    /\ chunk_index = 0
    /\ chunk_filename = 0
    /\ ret = "none"
    /\ working = <<>>
    /\ delivered = <<>>
    /\ output_dir = "none"
    /\ attempts = <<>>
    /\ sleepSecs = 0
    /\ got200 = {}
    /\ permFailed = {}
    /\ relocations = <<>>
    /\ n401 = 0
    /\ lastReq = 0

\* CsvUploader._fill_username_password
FillUsernamePassword ==
    /\ pc = "init"
    /\ IF envQualysUsernameProperty # None /\ envQualysPasswordProperty # None
       THEN \E u \in {None, "env_username"}, p \in {None, "env_password"} :
               /\ USERNAME' = u
               /\ PASSWORD' = p
               /\ pc' = IF EnvCredsMissing(u, p) THEN "config_error"
                        ELSE "generate_jwt"
       ELSE /\ UNCHANGED credVars
            /\ pc' = "generate_jwt"
    /\ UNCHANGED <<cfgVars, authVars, readVars, fileVars, upVars>>

\* self.generated_jwt = self._generate_jwt() in __init__
InitialJwt ==
    /\ pc = "generate_jwt"
    /\ authCalls' = authCalls + 1
    /\ \E ok \in BOOLEAN :
          /\ pc' = AfterInitialAuth(ok)
          /\ IF ok
             THEN /\ jwtIssued' = jwtIssued + 1
                  /\ generated_jwt' = jwtIssued + 1
             ELSE UNCHANGED <<jwtIssued, generated_jwt>>
    /\ UNCHANGED <<cfgVars, credVars, readVars, fileVars, upVars>>

\* process_and_upload_chunks up to headers = next(csv_file_reader)
ProcessStart ==
    /\ pc = "process"
    /\ output_dir' = "created"
    /\ \E src \in Sources :
          \* the lengths of the rows up to the header are never measured:
          \* one representative (length 0) stands for all of them
          /\ \A i \in 1..Len(src) : i <= SkipCount(HEADER) + 1 => src[i] = 0
          /\ source' = src
          /\ IF Len(src) < SkipCount(HEADER) + 1
             THEN /\ pc' = "run_error"
                  /\ pos' = Len(src)
                  /\ UNCHANGED headers
             ELSE /\ pc' = "loop"
                  /\ pos' = SkipCount(HEADER) + 1
                  /\ headers' = SkipCount(HEADER) + 1
    /\ UNCHANGED <<cfgVars, credVars, authVars, row, chunk,
                   current_chunk_size, chunk_index, working, delivered,
                   relocations, upVars>>

\* _write_chunk followed by the entry of upload_csv_file
WriteAndHandOver(rows, retpc) ==
    /\ chunk_index' = NextChunkIndex(chunk_index)
    /\ working' = WithFile(working, NextChunkIndex(chunk_index),
                           ChunkFile(headers, rows))
    /\ chunk_filename' = NextChunkIndex(chunk_index)
    /\ ret' = retpc
    /\ attempts' = <<>>
    /\ pc' = "upload"

\* one iteration of "for row in csv_file_reader" up to the call of
\* upload_csv_file, or the whole iteration when no chunk is sealed
LoopRow ==
    /\ pc = "loop"
    /\ pos < Len(source)
    /\ pos' = pos + 1
    /\ row' = pos + 1
    /\ LET r == pos + 1
           appended == AppendBeforeCheck(chunk, r)
       IN IF ShouldSeal(current_chunk_size, RowSize(r))
          THEN /\ chunk' = appended
               /\ WriteAndHandOver(appended, "loop_resume")
               /\ UNCHANGED current_chunk_size
          ELSE /\ chunk' = Append(appended, r)
               /\ current_chunk_size' = current_chunk_size + RowSize(r)
               /\ pc' = "loop"
               /\ UNCHANGED <<chunk_index, working, chunk_filename, ret,
                              attempts>>
    /\ UNCHANGED <<cfgVars, credVars, authVars, source, headers, delivered,
                   relocations, output_dir, sleepSecs, got200, permFailed,
                   n401, lastReq>>

\* the rest of the iteration after upload_csv_file returned
LoopResume ==
    /\ pc = "loop_resume"
    /\ chunk' = <<row>>
    /\ current_chunk_size' = RowSize(row)
    /\ pc' = "loop"
    /\ attempts' = <<>>
    /\ UNCHANGED <<cfgVars, credVars, authVars, source, pos, headers, row,
                   chunk_index, fileVars, chunk_filename, ret, sleepSecs,
                   got200, permFailed, n401, lastReq>>

\* "if chunk:" after the loop
LoopEnd ==
    /\ pc = "loop"
    /\ pos = Len(source)
    /\ IF BufferNonEmpty(chunk)
       THEN WriteAndHandOver(chunk, "done")
       ELSE /\ pc' = "done"
            /\ UNCHANGED <<chunk_index, working, chunk_filename, ret,
                           attempts>>
    /\ UNCHANGED <<cfgVars, credVars, authVars, source, pos, headers, row,
                   chunk, current_chunk_size, delivered, relocations,
                   output_dir, sleepSecs, got200, permFailed, n401, lastReq>>

\* the record of one upload request
Attempt(jwt, status, reauth) == [jwt |-> jwt, status |-> status, reauth |-> reauth]

\* what tenacity does when an attempt raised
AfterFailedAttempt ==
    IF RetryStops(Len(attempts) + 1)
    THEN /\ pc' = OnRetryError(ret)
         /\ permFailed' = permFailed \cup {chunk_filename}
         /\ UNCHANGED sleepSecs
    ELSE /\ pc' = "backoff"
         /\ sleepSecs' = WaitExponential(Len(attempts) + 1)
         /\ UNCHANGED permFailed

\* one attempt of upload_call: the request, the response, the branch taken
UploadCall ==
    /\ pc = "upload"
    /\ lastReq' = chunk_filename
    /\ \E status \in {200, 401, 500, TransportError} :
          \E authOk \in BOOLEAN :
             /\ status = 401 => n401 < Max401
             /\ status # 401 => authOk
             /\ n401' = IF status = 401 THEN n401 + 1 ELSE n401
             /\ got200' = IF status = 200 THEN got200 \cup {chunk_filename}
                          ELSE got200
             /\ attempts' = Append(attempts,
                   Attempt(generated_jwt, status,
                           IF status # TransportError
                              /\ ~StatusIsSuccess(status)
                              /\ StatusIsAuthExpired(status)
                           THEN (IF authOk THEN "ok" ELSE "failed")
                           ELSE "none"))
             /\ IF status = TransportError
                THEN /\ AfterFailedAttempt
                     /\ UNCHANGED authVars
                ELSE IF StatusIsSuccess(status)
                THEN /\ pc' = "move"
                     /\ UNCHANGED <<authVars, sleepSecs, permFailed>>
                ELSE IF StatusIsAuthExpired(status)
                THEN /\ authCalls' = authCalls + 1
                     /\ IF authOk
                        THEN /\ jwtIssued' = jwtIssued + 1
                             /\ generated_jwt' = jwtIssued + 1
                        ELSE UNCHANGED <<jwtIssued, generated_jwt>>
                     /\ AfterFailedAttempt
                ELSE /\ AfterFailedAttempt
                     /\ UNCHANGED authVars
    /\ UNCHANGED <<cfgVars, credVars, readVars, fileVars, chunk_filename, ret>>

\* the tenacity wait between two attempts
BackoffSleep ==
    /\ pc = "backoff"
    /\ pc' = "upload"
    /\ sleepSecs' = 0
    /\ UNCHANGED <<cfgVars, credVars, authVars, readVars, fileVars,
                   chunk_filename, ret, attempts, got200, permFailed, n401,
                   lastReq>>

\* shutil.move after upload_call returned
Move ==
    /\ pc = "move"
    /\ delivered' = MoveTargetAfter(working, delivered, chunk_filename)
    /\ working' = MoveSourceAfter(working, chunk_filename)
    /\ relocations' = Append(relocations, chunk_filename)
    /\ pc' = ret
    /\ UNCHANGED <<cfgVars, credVars, authVars, readVars, output_dir, upVars>>

\* shutil.move raises: the error leaves upload_csv_file and the run
MoveFails ==
    /\ pc = "move"
    /\ pc' = OnMoveError(ret)
    /\ UNCHANGED <<cfgVars, credVars, authVars, readVars, fileVars, upVars>>

Next ==
    \/ FillUsernamePassword
    \/ InitialJwt
    \/ ProcessStart
    \/ LoopRow
    \/ LoopResume
    \/ LoopEnd
    \/ UploadCall
    \/ BackoffSleep
    \/ Move

\* a run on a filesystem where shutil.move succeeds
Spec == Init /\ [][Next]_vars

NextFs == Next \/ MoveFails

\* a run on a filesystem where shutil.move may raise
SpecFs == Init /\ [][NextFs]_vars

\* every request and every wait returns: a step that can be taken is taken
SpecFsLive == SpecFs /\ WF_vars(NextFs)

TypeOK ==
    /\ pc \in {"init", "generate_jwt", "process", "loop", "loop_resume",
               "upload", "backoff", "move", "done", "config_error",
               "auth_error", "run_error", "fs_error"}
    /\ chunk_index \in Nat
    /\ generated_jwt \in 0..jwtIssued

\* ---- definitions used by the properties ----
Max(a, b) == IF a >= b THEN a ELSE b

\* every chunk file written so far, wherever it is now
AllFiles ==
    [k \in DOMAIN working \cup DOMAIN delivered |->
        IF k \in DOMAIN working THEN working[k] ELSE delivered[k]]

\* the data rows of a chunk file: its lines after the header line
DataOf(f) == Tail(f)

RECURSIVE ConcatChunks(_)
ConcatChunks(k) ==
    IF k = 0 THEN <<>>
    ELSE ConcatChunks(k - 1) \o
         (IF k \in DOMAIN AllFiles THEN DataOf(AllFiles[k]) ELSE <<>>)

\* the data rows of the source, in order: the rows after the header row
DataRows == [i \in 1..(Len(source) - headers) |-> headers + i]

RECURSIVE Payload(_)
Payload(rows) ==
    IF rows = <<>> THEN 0 ELSE RowSize(Head(rows)) + Payload(Tail(rows))

Occurrences(seq, x) == Cardinality({i \in 1..Len(seq) : seq[i] = x})

\* upload_csv_file has returned for chunk k
Returned(k) ==
    /\ k \in 1..chunk_index
    /\ k = chunk_filename => pc \in {"loop", "loop_resume", "done"}

BothNamesConfigured ==
    envQualysUsernameProperty # None /\ envQualysPasswordProperty # None

\* C1: at the end of a run the data rows of the chunk files, concatenated in
\* ascending index order without the header lines, are exactly the data rows
\* of the source, in order, each once.
C1_ChunksReconstructSource ==
    pc = "done" => ConcatChunks(chunk_index) = DataRows

\* C2: the serialized payload of the data rows of every chunk written is at
\* most MAX_CHUNK_SIZE, unless the chunk is a single row that alone exceeds
\* MAX_CHUNK_SIZE.
C2_PayloadWithinCeiling ==
    \A k \in DOMAIN AllFiles :
        \/ Payload(DataOf(AllFiles[k])) <= MAX_CHUNK_SIZE
        \/ /\ Len(DataOf(AllFiles[k])) = 1
           /\ RowSize(DataOf(AllFiles[k])[1]) > MAX_CHUNK_SIZE

\* C3: a chunk file is in the delivered sub-area only if one of its upload
\* requests was answered 200; once upload_csv_file has returned for a chunk
\* it is delivered exactly if it got a 200; a chunk whose attempts all failed
\* is in the working directory and was never moved; a chunk is moved at most
\* once, and exactly once when it got its 200.
C3_MovedIffUploaded ==
    /\ \A k \in DOMAIN delivered : k \in got200
    /\ \A k \in 1..chunk_index :
          /\ Returned(k) => (k \in DOMAIN delivered <=> k \in got200)
          /\ (Returned(k) /\ k \notin got200) =>
                 /\ k \in DOMAIN working
                 /\ k \in permFailed
                 /\ Occurrences(relocations, k) = 0
          /\ (Returned(k) /\ k \in got200) => Occurrences(relocations, k) = 1
          /\ Occurrences(relocations, k) <= 1

\* a chunk was given up, and a later one, answered 200 on its third attempt,
\* has been moved
C3_Witness ==
    /\ permFailed # {}
    /\ Len(attempts) = 3
    /\ attempts[1].status # 200
    /\ attempts[3].status = 200
    /\ chunk_filename \in DOMAIN delivered
    /\ chunk_filename \notin DOMAIN working

\* C4: re-authentication is called once per 401 response and for no other
\* response, and every upload attempt of a chunk made after a 401 response
\* carries the token returned by the re-authentication, not the token that
\* was answered 401.
C4_ReauthTokenUsed ==
    /\ pc \notin {"init", "generate_jwt", "config_error"} => authCalls = 1 + n401
    /\ \A i \in 1..Len(attempts) :
          (attempts[i].status = 401) <=> (attempts[i].reauth # "none")
    /\ \A i \in 1..Len(attempts) : \A j \in 1..Len(attempts) :
          (attempts[i].status = 401 /\ i < j) =>
              /\ attempts[j].jwt # attempts[i].jwt
              /\ j = i + 1 => attempts[j].jwt > attempts[i].jwt

\* the attempts log is that of the chunk named by chunk_filename
InUploadOfChunk == pc \in {"upload", "backoff", "move", "loop_resume", "done"}

\* chunk k has reached its final disposition
Final(k) == k \in DOMAIN delivered \/ k \in permFailed

\* C5: a chunk gets at least one and at most 3 upload requests; no request
\* follows a 200; after a non-200 outcome another attempt follows unless it
\* was the third, and the chunk is given up exactly when its third request
\* ended without a 200.
C5_AttemptBudget ==
    /\ Len(attempts) <= 3
    /\ \A i \in 1..Len(attempts) : i < Len(attempts) => attempts[i].status # 200
    /\ pc = "upload" => Len(attempts) < 3
    /\ pc = "backoff" =>
          /\ Len(attempts) \in 1..2
          /\ attempts[Len(attempts)].status # 200
    /\ pc = "move" =>
          /\ Len(attempts) >= 1
          /\ attempts[Len(attempts)].status = 200
    /\ (pc \in {"loop_resume", "done"} /\ chunk_filename # 0) =>
          Len(attempts) >= 1
    /\ InUploadOfChunk =>
          (chunk_filename \in permFailed <=>
              (Len(attempts) = 3 /\ attempts[3].status # 200))

\* a 401, a transport error and a 500 in a row: the chunk is given up
C5_Witness ==
    /\ Len(attempts) = 3
    /\ attempts[1].status = 401
    /\ attempts[2].status = TransportError
    /\ attempts[3].status = 500
    /\ chunk_filename \in permFailed
    /\ pc = "loop_resume"

\* C6: after a chunk has been given up the run is in no error state, the
\* chunk file is still in the working directory, control is back in the
\* chunk loop (or at the end of the run), and a run that ends has consumed
\* every source row and written its last buffer.
C6_FailureNotFatal ==
    /\ permFailed # {} =>
          pc \in {"loop", "loop_resume", "upload", "backoff", "move", "done"}
    /\ \A k \in permFailed : k \in DOMAIN working /\ k \notin DOMAIN delivered
    /\ (InUploadOfChunk /\ chunk_filename \in permFailed) => pc = ret
    /\ pc = "done" =>
          /\ pos = Len(source)
          /\ chunk # <<>> =>
                /\ chunk_index \in DOMAIN AllFiles
                /\ DataOf(AllFiles[chunk_index]) = chunk

\* two chunks were given up, the third was uploaded and moved, the run ended
C6_Witness ==
    /\ pc = "done"
    /\ {1, 2} \subseteq permFailed
    /\ 3 \in DOMAIN delivered

\* C7: the chunk index grows by one at a time, and only when the previous
\* chunk is final; the files written are those of indices 1..chunk_index; a
\* chunk file is written once; every upload request is for the latest chunk
\* written, all earlier chunks being final, so the chunks of successive
\* requests never decrease.
C7_StrictlySequential ==
    [][ /\ chunk_index' \in {chunk_index, chunk_index + 1}
        /\ chunk_index' # chunk_index =>
              /\ chunk_index # 0 => Final(chunk_index)
              /\ chunk_index' \notin DOMAIN AllFiles
              /\ chunk_index' \in DOMAIN working'
              /\ lastReq < chunk_index'
        /\ DOMAIN AllFiles' = 1..chunk_index'
        /\ lastReq' >= lastReq
        /\ Len(attempts') > Len(attempts) =>
              /\ lastReq' = chunk_index
              /\ chunk_index \in DOMAIN working
              /\ \A k \in 1..(chunk_index - 1) : Final(k)
      ]_vars

\* the second chunk is being uploaded after the first was given up
C7_Witness ==
    /\ chunk_index = 2
    /\ lastReq = 2
    /\ 1 \in permFailed
    /\ pc = "backoff"

C8_Inv ==
    /\ \A k \in DOMAIN delivered : k \in got200
    /\ DOMAIN working \cap DOMAIN delivered = {}
    /\ DOMAIN working \cup DOMAIN delivered = 1..chunk_index

\* C8: in every state, also after a failed relocation, each file of the
\* delivered sub-area belongs to a chunk that was answered 200 and each chunk
\* file written is in exactly one of the two directories; no step removes or
\* changes a file of the delivered sub-area.
C8_DeliveredIsDurable ==
    [][ /\ C8_Inv
        /\ C8_Inv'
        /\ \A k \in DOMAIN delivered :
              k \in DOMAIN delivered' /\ delivered'[k] = delivered[k]
      ]_vars

\* one chunk delivered, a later one written and still in the working
\* directory after its relocation failed
C8_Witness ==
    /\ pc = "fs_error"
    /\ 1 \in DOMAIN delivered
    /\ 2 \in DOMAIN working
    /\ 2 \in got200

\* C9 as stated: the first line of every chunk file is the source row at
\* position HEADER, and every data row of a chunk lies after that position.
C9_HeaderAtOffset ==
    \A k \in DOMAIN AllFiles :
        /\ Head(AllFiles[k]) = HEADER
        /\ \A i \in 1..Len(DataOf(AllFiles[k])) : DataOf(AllFiles[k])[i] > HEADER

\* C9 amended: the first line of every chunk file is the source row at
\* position max(HEADER, 1), the same for every chunk and the one captured in
\* headers; every data row of a chunk is a source row after that position, so
\* neither a skipped row nor the header row is among them.
C9_HeaderFirstLine ==
    /\ pc \in {"loop", "loop_resume", "upload", "backoff", "move", "done",
               "fs_error"} => headers = Max(HEADER, 1)
    /\ \A k \in DOMAIN AllFiles :
          /\ Head(AllFiles[k]) = Max(HEADER, 1)
          /\ \A i \in 1..Len(DataOf(AllFiles[k])) :
                /\ DataOf(AllFiles[k])[i] > Max(HEADER, 1)
                /\ DataOf(AllFiles[k])[i] <= Len(source)

\* one leading row skipped, the second row is the header of two chunk files
C9_Witness ==
    /\ HEADER = 2
    /\ Len(source) = 3
    /\ chunk_index = 2
    /\ Head(AllFiles[1]) = 2
    /\ Head(AllFiles[2]) = 2

\* C10: with both variable names configured and a variable unset the run
\* stops in the configuration error with no /auth request sent, no upload
\* request sent and no chunk written; with fewer than two names configured
\* the supplied credentials are kept and the configuration error never
\* occurs.
C10_EnvCredentialsFailFast ==
    /\ (BothNamesConfigured /\ pc # "init"
          /\ (USERNAME = None \/ PASSWORD = None)) => pc = "config_error"
    /\ pc = "config_error" =>
          /\ BothNamesConfigured
          /\ USERNAME = None \/ PASSWORD = None
          /\ authCalls = 0
          /\ lastReq = 0
          /\ attempts = <<>>
          /\ chunk_index = 0
          /\ DOMAIN AllFiles = {}
    /\ ~BothNamesConfigured =>
          /\ pc # "config_error"
          /\ USERNAME = "arg_username"
          /\ PASSWORD = "arg_password"

\* both names configured, the username variable set, the password variable
\* unset: the configuration error
C10_Witness ==
    /\ pc = "config_error"
    /\ USERNAME = "env_username"
    /\ PASSWORD = None

\* C11: /auth is requested exactly once before any chunk processing (before
\* the output directory is made, a chunk is written or an upload request is
\* sent); when that first authentication fails the run stops with the output
\* directory not made, no chunk file written and no upload request sent.
C11_InitialAuthOnceAndFatal ==
    /\ pc \in {"init", "generate_jwt", "config_error"} =>
          /\ authCalls = 0
          /\ output_dir = "none"
          /\ lastReq = 0
    /\ pc = "process" =>
          /\ authCalls = 1
          /\ jwtIssued = 1
          /\ output_dir = "none"
    /\ (lastReq = 0 /\ pc \notin {"init", "generate_jwt", "config_error"}) =>
          authCalls = 1
    /\ output_dir = "created" => jwtIssued >= 1
    /\ (authCalls >= 1 /\ jwtIssued = 0) =>
          /\ pc = "auth_error"
          /\ authCalls = 1
          /\ output_dir = "none"
          /\ DOMAIN AllFiles = {}
          /\ chunk_index = 0
          /\ lastReq = 0
          /\ attempts = <<>>

\* the first authentication failed: the run has stopped
C11_Witness ==
    /\ pc = "auth_error"
    /\ authCalls = 1
    /\ generated_jwt = 0

\* C12: once an /auth request has failed (more requests sent than tokens
\* issued), no step sends an upload request and no step writes a chunk.
C12_AuthFailureAbortsRun ==
    [][ authCalls > jwtIssued =>
            /\ Len(attempts') <= Len(attempts)
            /\ chunk_index' = chunk_index
      ]_vars

\* C13: in every chunk file that contains a data row whose own size exceeds
\* MAX_CHUNK_SIZE, every data line is that row.
C13_OversizedRowAlone ==
    \A k \in DOMAIN AllFiles :
        \A i \in 1..Len(DataOf(AllFiles[k])) :
            RowSize(DataOf(AllFiles[k])[i]) > MAX_CHUNK_SIZE =>
                \A j \in 1..Len(DataOf(AllFiles[k])) :
                    DataOf(AllFiles[k])[j] = DataOf(AllFiles[k])[i]

\* the header has been captured: the run is in or past the row loop
PastHeader ==
    pc \in {"loop", "loop_resume", "upload", "backoff", "move", "done",
            "fs_error"}

\* C14: when the source has a header row and no data row, the run is in the
\* row loop or has ended normally, with no chunk file written, no upload
\* request sent, no file relocated and no /auth request but the first.
C14_EmptySourceNoChunk ==
    (PastHeader /\ Len(source) = headers) =>
        /\ pc \in {"loop", "done"}
        /\ chunk_index = 0
        /\ DOMAIN AllFiles = {}
        /\ lastReq = 0
        /\ attempts = <<>>
        /\ relocations = <<>>
        /\ authCalls = 1

\* a source of one skipped row and the header row: the run has ended
C14_Witness ==
    /\ pc = "done"
    /\ HEADER = 2
    /\ headers = 2
    /\ Len(source) = 2

\* C15: when the relocation fails the run stops in the filesystem error: the
\* chunk (answered 200 on its last request) is not recorded as permanently
\* failed, is still in the working directory, got no request after the 200,
\* and no later chunk was written; upload_csv_file never returns normally
\* for a chunk that was answered 200 and is not relocated.
C15_RelocationFailureSurfaces ==
    /\ pc = "fs_error" =>
          /\ chunk_filename \in got200
          /\ chunk_filename \notin permFailed
          /\ chunk_filename \in DOMAIN working
          /\ chunk_filename \notin DOMAIN delivered
          /\ Len(attempts) >= 1
          /\ attempts[Len(attempts)].status = 200
          /\ chunk_index = chunk_filename
          /\ lastReq = chunk_filename
    /\ \A k \in 1..chunk_index :
          (Returned(k) /\ k \in got200) => k \in DOMAIN delivered
    /\ \A k \in permFailed : k \notin got200

\* the first chunk was answered 200 on its second request, its relocation
\* failed, and source rows are still unread
C15_Witness ==
    /\ pc = "fs_error"
    /\ chunk_filename = 1
    /\ Len(attempts) = 2
    /\ pos < Len(source)

\* C16: a chunk sealed inside the row loop does not contain the row whose
\* size triggered the seal.
C16_SealBeforeAddingRow ==
    (pc = "upload" /\ ret = "loop_resume") =>
        \A i \in 1..Len(DataOf(AllFiles[chunk_index])) :
            DataOf(AllFiles[chunk_index])[i] # row

Last(seq) == seq[Len(seq)]

\* C17: the running size counts each buffered row once while the buffer
\* holds it twice (once when it is the row a seal restarted the buffer with);
\* a chunk sealed inside the loop ends with the row that triggered the seal,
\* and the next chunk file begins with that row; at the end of a run every
\* data row of the source occurs exactly twice across the chunk files.
C17_RowsWrittenTwice ==
    /\ pc = "loop" =>
          Payload(chunk) =
              2 * current_chunk_size
              - (IF chunk_index > 0 /\ chunk # <<>>
                 THEN RowSize(Head(chunk)) ELSE 0)
    /\ (pc = "upload" /\ ret = "loop_resume") =>
          Last(DataOf(AllFiles[chunk_index])) = row
    /\ \A k \in 2..chunk_index :
          (k \in DOMAIN AllFiles /\ k - 1 \in DOMAIN AllFiles) =>
              /\ DataOf(AllFiles[k]) # <<>>
              /\ Head(DataOf(AllFiles[k])) = Last(DataOf(AllFiles[k - 1]))
    /\ pc = "done" =>
          /\ Len(ConcatChunks(chunk_index)) = 2 * Len(DataRows)
          /\ \A i \in 1..Len(DataRows) :
                Occurrences(ConcatChunks(chunk_index), DataRows[i]) = 2

\* two data rows, the second triggering a seal: chunk 1 is header, r1, r1,
\* r2 and chunk 2 is header, r2
C17_Witness ==
    /\ pc = "done"
    /\ HEADER = 1
    /\ chunk_index = 2
    /\ AllFiles[1] = <<1, 2, 2, 3>>
    /\ AllFiles[2] = <<1, 3>>

C18_Inv ==
    /\ sleepSecs # 0 <=> pc = "backoff"
    /\ pc = "backoff" =>
          \/ Len(attempts) = 1 /\ sleepSecs = 10
          \/ Len(attempts) = 2 /\ sleepSecs = 20
    /\ Len(attempts) \in {0, 3} => sleepSecs = 0

\* C18: a wait is pending exactly between a failed attempt k (k = 1, 2) and
\* attempt k + 1, and lasts 10 s after the first and 20 s after the second
\* failed attempt; none is pending before the first attempt or after the
\* third; no step taken while a wait is pending sends an upload or /auth
\* request.
C18_ExponentialBackoff ==
    [][ /\ C18_Inv
        /\ C18_Inv'
        /\ sleepSecs # 0 =>
              /\ attempts' = attempts
              /\ authCalls' = authCalls
              /\ lastReq' = lastReq
      ]_vars

\* the second attempt failed: 20 s are waited before the third
C18_Witness ==
    /\ pc = "backoff"
    /\ Len(attempts) = 2
    /\ sleepSecs = 20

\* C19: after construction the token changes only in a step that sends an
\* upload request answered 401 whose re-authentication succeeds, and then
\* becomes the newly issued token; a request step with any other outcome
\* leaves it unchanged; every upload request carries the token issued by the
\* latest successful /auth request.
C19_TokenChangesOnlyOnReauth ==
    [][ /\ (generated_jwt' # generated_jwt /\ generated_jwt # 0) =>
              /\ Len(attempts') = Len(attempts) + 1
              /\ Last(attempts').status = 401
              /\ Last(attempts').reauth = "ok"
        /\ Len(attempts') = Len(attempts) + 1 =>
              /\ Last(attempts').jwt = generated_jwt
              /\ Last(attempts').jwt = jwtIssued
              /\ (Last(attempts').status = 401 /\ Last(attempts').reauth = "ok") =>
                    /\ jwtIssued' = jwtIssued + 1
                    /\ generated_jwt' = jwtIssued'
              /\ ~(Last(attempts').status = 401 /\ Last(attempts').reauth = "ok") =>
                    /\ jwtIssued' = jwtIssued
                    /\ generated_jwt' = generated_jwt
      ]_vars

\* chunk 1 was given up, one of its requests answered 401 and
\* re-authenticated; the first request of chunk 2 carries the second token
C19_Witness ==
    /\ 1 \in permFailed
    /\ chunk_filename = 2
    /\ n401 = 1
    /\ jwtIssued = 2
    /\ Len(attempts) = 1
    /\ attempts[1].jwt = 2

\* the run has ended, normally or with an error
Terminated ==
    pc \in {"done", "config_error", "auth_error", "run_error", "fs_error"}

\* C20: every run ends; throughout, a chunk has had at most 3 upload
\* requests and the /auth requests number at most one per 401 response plus
\* the first; a run that ends without error leaves every chunk written
\* either in the delivered sub-area or recorded as permanently failed.
C20_RunTerminates ==
    /\ <>Terminated
    /\ [](Len(attempts) <= 3 /\ authCalls <= 1 + n401)
    /\ [](pc = "done" =>
            \A k \in 1..chunk_index :
                /\ k \in DOMAIN AllFiles
                /\ k \in DOMAIN delivered \/ k \in permFailed)

\* a run with a failed re-authentication, a chunk given up and a chunk
\* delivered has ended
C20_Witness ==
    /\ pc = "done"
    /\ authCalls > jwtIssued
    /\ 1 \in permFailed
    /\ 2 \in DOMAIN delivered
    /\ n401 >= 1
====
